---------------------------- MODULE Spec2Model ----------------------------
(***************************************************************************)
(* Model of the resilient access layer of the NGN/USD price oracle         *)
(* (class NGNUSDOracle, src/api.js lines 199-564) and of its callers       *)
(* (src/oracle.js, the HTTP routes of src/api.js).                         *)
(*                                                                         *)
(* JavaScript runs one callback at a time; an async function is suspended  *)
(* at every await.  Each action below is one such run-to-suspension step   *)
(* of one logical caller.  The provider's answers (success, a transient    *)
(* error, any other error) are chosen by the environment.                  *)
(***************************************************************************)
EXTENDS Integers, Sequences, FiniteSets, TLC

(* ------------------------------ bounds -------------------------------- *)
\* concurrent logical callers (HTTP requests, the runner, monitor ticks)
NumCallers == 2
\* operations started in one behaviour
MaxOps == 2
\* provider calls that fail in one behaviour
MaxFaults == 4
\* monitorPrice schedules installed in one behaviour
MaxTimers == 2
\* batchSize handed to queryHistoricalEvents by the modelled callers
BatchSize == 2
\* the chain's head block, as the provider reports it
HeadBlock == 5
\* the largest blockRange and batchSize tried on the window computation
MaxBlockRange == 7
MaxBatchSize == 4
\* the largest decimals() and the largest small raw answer tried on the
\* quote conversion
MaxDecimals == 6
MaxAnswer == 2

(* ------------------------- program constants -------------------------- *)
\* RPC_ENDPOINTS.length
NumEndpoints == 4
\* executeWithRetry(fn, retries = 3)
DefaultRetries == 3

(* --------------------------- provider data ---------------------------- *)
\* JavaScript values carry their type: a value of one type never equals a
\* value of another
Null == [null |-> TRUE]
Undefined == [undefined |-> TRUE]
NaN == [nan |-> TRUE]
Num(n) == [num |-> n]
Str(s) == [str |-> s]
Arr(a) == [arr |-> a]

\* what the contract answers to decimals(), description(), latestAnswer()
ProviderDecimals == Num(6)
ProviderDescription == Str("NGN / USD")
ProviderAnswer == Num(689)

\* p-limit with no task running
NoCaller == 0

Callers == 1..NumCallers

VARIABLES
    rpcIndex,           \* this.rpcIndex
    provider,           \* endpoint index this.provider / this.contract are bound to
    cachedDecimals,     \* this.cachedDecimals
    cachedDescription,  \* this.cachedDescription
    activeListeners,    \* this.activeListeners (its keys)
    monitorInterval,    \* this.monitorInterval (a timer id, or Undefined)
    timers,             \* the runtime's active setInterval timers
    limitHolder,        \* p-limit: the caller whose task is running (activeCount)
    limitQueue,         \* p-limit: the queued tasks, by caller
    cs,                 \* per caller: the position of its async function
    rotations,          \* history: rotateRPC calls so far
    stopped,            \* history: timers that stopMonitoring has cleared
    result,             \* what the last step returned to a caller, if anything
    lastRetry,          \* the executeWithRetry call the last step ended, if any
    written,            \* the cache fields the last step assigned
    cacheHits,          \* the cache fields the last step served from the cache
    opsStarted,         \* operations started so far
    faults,             \* failed provider calls so far
    chainHead,          \* the chain's head block, which getBlockNumber returns
    subscribed,         \* history: the events setupEventListeners() was asked
                        \* to subscribe to since the last stopMonitoring()
    feed,               \* the contract's decimals() and current answer
    rotated,            \* what the rotateRPC() of the last step met, if it ran
    stopSeen            \* history: the callers whose monitorPrice(), in flight
                        \* or just returned, was at its first poll when
                        \* stopMonitoring() ran

vars == <<rpcIndex, provider, cachedDecimals, cachedDescription, activeListeners,
          monitorInterval, timers, limitHolder, limitQueue, cs, rotations,
          stopped, result, lastRetry, written, cacheHits, opsStarted, faults,
          chainHead, subscribed, feed, rotated, stopSeen>>


(* ------------------------------ helpers ------------------------------- *)
\* Math.min forgotten: the window is never truncated
MinOfUntruncated(a, b) == a

\* Math.min
MinOf(a, b) == IF a <= b THEN a ELSE b

\* the index advanced without the modulo
RotateIndexNoWrap(idx) == idx + 1

\* rotateRPC: this.rpcIndex = (this.rpcIndex + 1) % this.rpcEndpoints.length
RotateIndex(idx) == (idx + 1) % NumEndpoints

\* the cache test dropped: the value is fetched on every call
IsCachedNever(v) == FALSE

\* getDecimals / getDescription: the test `this.cachedX === null`, negated
IsCached(v) == v # Null

\* the test for the last attempt dropped
IsLastAttemptNever(i) == FALSE

\* executeWithRetry: i === retries - 1
IsLastAttempt(i) == i = DefaultRetries - 1

RECURSIVE Pow2(_)
Pow2(k) == IF k = 0 THEN 1 ELSE 2 * Pow2(k - 1)

\* executeWithRetry: Math.min(1000 * Math.pow(2, i), 10000), in ms
Delay(i) == MinOf(1000 * Pow2(i), 10000)

\* the arguments of a queryFilter call
Window(from, to) == [from |-> from, to |-> to]

\* the for loop of queryHistoricalEvents that builds `batches`
RECURSIVE BatchLoop(_, _, _)
BatchLoop(i, currentBlock, batchSize) ==
    IF i <= currentBlock
    THEN <<Window(Num(i), Num(MinOf(i + batchSize - 1, currentBlock)))>>
         \o BatchLoop(i + batchSize, currentBlock, batchSize)
    ELSE <<>>

\* `batches` for a head the provider returned; with currentBlock undefined
\* fromBlock is NaN and the loop condition NaN <= undefined is false
Batches(currentBlock, blockRange, batchSize) ==
    IF currentBlock = Undefined
    THEN <<>>
    ELSE BatchLoop(currentBlock.num - blockRange, currentBlock.num, batchSize)

\* const fromBlock = currentBlock - blockRange
FromBlock(currentBlock, blockRange) ==
    IF currentBlock = Undefined THEN NaN ELSE Num(currentBlock.num - blockRange)


\* the provider's log query: one AnswerUpdated event in every block, with
\* the contract's answer as its args.current, in ascending block order
LogsIn(win, current) ==
    IF win.from = NaN \/ win.to = Undefined THEN <<>>
    ELSE IF win.from.num > win.to.num THEN <<>>
    ELSE [k \in 1..(win.to.num - win.from.num + 1) |->
            [blockNumber |-> Num(win.from.num + k - 1), current |-> current]]

\* what a successful provider call returns
ProviderValue(fn, win, head, fd) ==
    CASE fn = "decimals" -> fd.decimals
      [] fn = "description" -> ProviderDescription
      [] fn = "latestAnswer" -> fd.answer
      [] fn = "latestRoundData" -> fd.answer
      [] fn = "getBlockNumber" -> Num(head)
      [] fn = "queryFilter" -> Arr(LogsIn(win, fd.answer))

\* a flat() that splices the arrays in from the last one to the first
RECURSIVE FlatReversed(_)
FlatReversed(batchResults) ==
    IF batchResults = <<>> THEN <<>>
    ELSE FlatReversed(Tail(batchResults))
         \o (IF Head(batchResults) = Undefined THEN <<Undefined>>
             ELSE Head(batchResults).arr)

\* batchResults.flat(): arrays are spliced in, any other element is kept
RECURSIVE Flat(_)
Flat(batchResults) ==
    IF batchResults = <<>> THEN <<>>
    ELSE (IF Head(batchResults) = Undefined THEN <<Undefined>>
          ELSE Head(batchResults).arr)
         \o Flat(Tail(batchResults))

\* events.map(event => ... event.args.current ...) raises a TypeError when
\* events is undefined or holds an undefined element
MapThrows(events) ==
    \/ events = Undefined
    \/ \E k \in 1..Len(events.arr) : events.arr[k] = Undefined

(* -------------------------- quote conversion -------------------------- *)
\* JavaScript numbers that are not NaN: a quotient n / d of integers, or
\* Infinity.  Quotients are kept exact: the rounding error of a double is far
\* below the digits that toFixed(2) and toFixed(6) keep.
Infinity == [inf |-> TRUE]
Rat(n, d) == [n |-> n, d |-> d]

RECURSIVE Pow10(_)
Pow10(k) == IF k = 0 THEN 1 ELSE 10 * Pow10(k - 1)

\* Number(v): Number(undefined) is NaN
NumberOf(v) == IF v = Undefined THEN NaN ELSE v

\* Number(answer) / Math.pow(10, decimals); Math.pow(10, undefined) is NaN
ScaleDown(answer, decimals) ==
    IF NumberOf(answer) = NaN \/ decimals = Undefined THEN NaN
    ELSE Rat(answer.num, Pow10(decimals.num))

\* 1 / x: 1 / 0 is Infinity and raises nothing
Reciprocal(x) ==
    IF x = NaN THEN NaN
    ELSE IF x.n = 0 THEN Infinity
    ELSE Rat(x.d, x.n)

\* the quotient cut off instead of rounded
RoundDivDown(n, d) == n \div d

\* the integer nearest to n / d, the larger one of two (n >= 0, d > 0)
RoundDiv(n, d) ==
    IF 2 * (n % d) >= d THEN (n \div d) + 1 ELSE n \div d

\* the last w decimal digits of n
RECURSIVE Digits(_, _)
Digits(n, w) ==
    IF w = 0 THEN "" ELSE Digits(n \div 10, w - 1) \o ToString(n % 10)

\* x.toFixed(digits)
ToFixed(x, digits) ==
    IF x = NaN THEN "NaN"
    ELSE IF x = Infinity THEN "Infinity"
    ELSE LET scaled == RoundDiv(x.n * Pow10(digits), x.d)
         IN  ToString(scaled \div Pow10(digits)) \o "."
             \o Digits(scaled % Pow10(digits), digits)

\* ngnToUsd, usdToNgn and the two display strings of a raw answer
Quote(answer, decimals) ==
    LET ngnToUsd == ScaleDown(answer, decimals)
        usdToNgn == Reciprocal(ngnToUsd)
    IN  [ngnToUsd |-> ngnToUsd,
         usdToNgn |-> usdToNgn,
         formattedPrice |-> "1 USD = " \o ToFixed(usdToNgn, 2) \o " NGN",
         reversePrice |-> "1 NGN = " \o ToFixed(ngnToUsd, 6) \o " USD"]

\* the record processEvents builds from one event
ProcessEvent(event, decimals) ==
    LET q == Quote(event.current, decimals)
    IN  [blockNumber |-> event.blockNumber,
         ngnToUsd |-> q.ngnToUsd, usdToNgn |-> q.usdToNgn,
         formattedPrice |-> q.formattedPrice, reversePrice |-> q.reversePrice]

\* events.map(event => {...})
ProcessEvents(events, decimals) ==
    [k \in 1..Len(events) |-> ProcessEvent(events[k], decimals)]

(* --------------------------- caller records --------------------------- *)
NoWindow == Window(Undefined, Undefined)

IdleCaller ==
    [op |-> "idle", pc |-> "idle", phase |-> "none", todo |-> <<>>,
     fn |-> "none", i |-> 0, outcomes |-> <<>>, rotAfter |-> {},
     waits |-> <<>>, settled |-> "none", val |-> Null,
     decimals |-> Null, description |-> Null,
     timer |-> 0,
     blockRange |-> 0, batchSize |-> 0, currentBlock |-> Null,
     batches |-> <<>>, w |-> 0, win |-> NoWindow,
     batchResults |-> <<>>, failed |-> {}, events |-> Undefined]

NoResult ==
    [caller |-> NoCaller, op |-> "none", status |-> "none", value |-> Null,
     issued |-> <<>>, multi |-> FALSE, failed |-> {}, conv |-> "none"]

NoRetry ==
    [caller |-> NoCaller, fn |-> "none", settled |-> "none", val |-> Null,
     outcomes |-> <<>>, rotAfter |-> {}, waits |-> <<>>]

\* no rotateRPC() ran: else whether contract.removeAllListeners() raised, the
\* registry rotateRPC() found, and the names whose contract.on(...) raised
NoRotation ==
    [done |-> FALSE, teardownThrew |-> FALSE, registered |-> {}, failed |-> {}]

\* executeWithRetry(fn): the loop starts at i = 0 and calls fn()
StartCall(c, f) ==
    [c EXCEPT !.pc = "call", !.fn = f, !.i = 0, !.outcomes = <<>>,
              !.rotAfter = {}, !.waits = <<>>, !.settled = "none",
              !.val = Null]

\* getDecimals() / getDescription() on a populated cache return the cached
\* value; the first call of c.todo that is not served by the cache is issued.
\* pc = "ready" when nothing is left to call.
Advance(c, cd, cdesc) ==
    LET skipDec == c.todo # <<>> /\ Head(c.todo) = "decimals" /\ IsCached(cd)
        t1 == IF skipDec THEN Tail(c.todo) ELSE c.todo
        skipDesc == t1 # <<>> /\ Head(t1) = "description" /\ IsCached(cdesc)
        t2 == IF skipDesc THEN Tail(t1) ELSE t1
        c1 == [c EXCEPT !.decimals = IF skipDec THEN cd ELSE @,
                        !.description = IF skipDesc THEN cdesc ELSE @]
    IN  IF t2 = <<>>
        THEN [c1 EXCEPT !.pc = "ready", !.todo = <<>>]
        ELSE StartCall([c1 EXCEPT !.todo = Tail(t2)], Head(t2))

\* the cache fields that Advance serves from the cache
HitsOf(c, cd, cdesc) ==
    LET skipDec == c.todo # <<>> /\ Head(c.todo) = "decimals" /\ IsCached(cd)
        t1 == IF skipDec THEN Tail(c.todo) ELSE c.todo
        skipDesc == t1 # <<>> /\ Head(t1) = "description" /\ IsCached(cdesc)
    IN  (IF skipDec THEN {"decimals"} ELSE {})
        \cup (IF skipDesc THEN {"description"} ELSE {})

\* the calls of a gated body, in order
BodyOf(op) ==
    IF op = "round" THEN <<"decimals", "latestRoundData">>
    ELSE <<"decimals", "description", "latestAnswer">>

GatedOps == {"price", "round", "monitor", "tick"}
ReadOps == GatedOps \cup {"desc"}

\* setInterval returns a fresh timer id
TimersIssued == IF monitorInterval = Undefined THEN 0 ELSE monitorInterval.num
NewTimer == TimersIssued + 1

\* clearInterval forgotten
ClearIntervalKept(active, id) == active

\* clearInterval(id)
ClearInterval(active, id) == active \ {id}

\* initializeProvider() that always connects to the first endpoint
InitializeProviderFirst(idx) == 0

\* initializeProvider(), new ethers.Contract(..., this.provider): the
\* endpoint the provider and the contract are bound to
InitializeProvider(idx) == idx

\* a removeAllListeners() without its try / catch
TeardownAbortsOnError(threw) == threw

\* removeAllListeners(): an error of contract.removeAllListeners() is caught
\* and dropped, so the caller never sees it
TeardownAborts(threw) == FALSE

\* the event names a registry may hold, in the order of their registration
EventNames == <<"AnswerUpdated", "NewRound">>

\* one try / catch around the whole loop: the first failure ends it
ReestablishedUntilFailure(listeners, failed) ==
    {EventNames[k] : k \in {j \in DOMAIN EventNames :
                              /\ EventNames[j] \in listeners
                              /\ \A i \in 1..j : EventNames[i] \notin failed}}

\* reestablishEventListeners(): the registry is cleared, and every listener
\* whose contract.on(...) does not raise is put back
Reestablished(listeners, failed) == listeners \ failed

(* ------------------------------- Init --------------------------------- *)
Init ==
    /\ rpcIndex = 0
    /\ provider = InitializeProvider(0)
    /\ cachedDecimals = Null
    /\ cachedDescription = Null
    /\ activeListeners = {}
    /\ monitorInterval = Undefined
    /\ timers = {}
    /\ limitHolder = NoCaller
    /\ limitQueue = <<>>
    /\ cs = [p \in Callers |-> IdleCaller]
    /\ rotations = 0
    /\ stopped = {}
    /\ result = NoResult
    /\ lastRetry = NoRetry
    /\ written = {}
    /\ cacheHits = {}
    /\ opsStarted = 0
    /\ faults = 0
    /\ chainHead = HeadBlock
    /\ subscribed = {}
    /\ feed = [decimals |-> ProviderDecimals, answer |-> ProviderAnswer]
    /\ rotated = NoRotation
    /\ stopSeen = {}

(* ------------------------- shared sub-steps --------------------------- *)
\* whether contract.removeAllListeners() raises: it can where handlers are
\* installed
TeardownOutcomes == IF activeListeners = {} THEN {FALSE} ELSE BOOLEAN

\* a rotation that leaves the provider and the contract on the old endpoint
RotateRPCStale ==
    \E threw \in TeardownOutcomes, failed \in SUBSET activeListeners :
        /\ rpcIndex' = RotateIndex(rpcIndex)
        /\ provider' = provider
        /\ activeListeners' = Reestablished(activeListeners, failed)
        /\ rotations' = rotations + 1
        /\ rotated' = [done |-> TRUE, teardownThrew |-> threw,
                       registered |-> activeListeners, failed |-> failed]

\* rotateRPC(): the old handlers are dropped, which may raise; the index
\* advances, the provider and the contract are rebuilt on the new endpoint,
\* and the registered listeners are installed again, each of which may raise
RotateRPC ==
    \E threw \in TeardownOutcomes, failed \in SUBSET activeListeners :
        IF TeardownAborts(threw)
        THEN /\ rotated' = [NoRotation EXCEPT !.teardownThrew = threw]
             /\ UNCHANGED <<rpcIndex, provider, activeListeners, rotations>>
        ELSE /\ rpcIndex' = RotateIndex(rpcIndex)
             /\ provider' = InitializeProvider(RotateIndex(rpcIndex))
             /\ activeListeners' = Reestablished(activeListeners, failed)
             /\ rotations' = rotations + 1
             /\ rotated' = [done |-> TRUE, teardownThrew |-> threw,
                            registered |-> activeListeners, failed |-> failed]

\* the marked monitorPrice() calls that are still at their first poll
StillPolling == {q \in stopSeen : cs[q].op = "monitor"}

\* an operation begins in the first free caller slot
Begin(p) ==
    /\ cs[p].pc = "idle"
    /\ \A q \in Callers : q < p => cs[q].pc # "idle"
    /\ opsStarted < MaxOps
    /\ opsStarted' = opsStarted + 1

\* What one run of a caller's code, from its resumption to its next
\* suspension, does: its new position c, the cache fields after it, the fields
\* it assigned and the ones it was served from the cache, what it returned
\* to its caller, whether its task on the gate ended, how many tasks it put on
\* the gate, and whether monitorPrice installed its interval.
Out(c, cd, cdesc, wr, hits, res, release, enq, install) ==
    [c |-> c, cd |-> cd, cdesc |-> cdesc, written |-> wr, hits |-> hits,
     result |-> res, release |-> release, enq |-> enq, install |-> install]

\* a task of the gate starts: a window's queryFilter, or the body of
\* getCurrentPrice / getLatestRoundData up to its first provider call
StartTask(c, cd, cdesc) ==
    IF c.op = "hist"
    THEN [c |-> StartCall(c, "queryFilter"), hits |-> {}]
    ELSE [c |-> Advance([c EXCEPT !.todo = BodyOf(c.op)], cd, cdesc),
          hits |-> HitsOf([c EXCEPT !.todo = BodyOf(c.op)], cd, cdesc)]

\* a gate whose running task never leaves it
ReleaseGateLost(holder, release) == holder

\* p-limit: when the running task settles, by a value or by an error, the
\* gate is free for the next one
ReleaseGate(holder, release) == IF release THEN NoCaller ELSE holder

\* The step of caller p takes effect.  p-limit (concurrency 1): tasks queue in
\* call order; when no task is running the first queued task is started, in
\* the same turn of the event loop in which the gate became free.
Apply(p, o) ==
    LET cs1 == [cs EXCEPT ![p] = o.c]
        q1 == limitQueue \o [k \in 1..o.enq |-> p]
        h1 == ReleaseGate(limitHolder, o.release)
        admit == h1 = NoCaller /\ q1 # <<>>
        a == Head(q1)
        started == StartTask(cs1[a], o.cd, o.cdesc)
    IN  /\ cs' = IF admit THEN [cs1 EXCEPT ![a] = started.c] ELSE cs1
        /\ limitHolder' = IF admit THEN a ELSE h1
        /\ limitQueue' = IF admit THEN Tail(q1) ELSE q1
        /\ cachedDecimals' = o.cd
        /\ cachedDescription' = o.cdesc
        /\ written' = o.written
        /\ cacheHits' = o.hits \cup (IF admit THEN started.hits ELSE {})
        /\ result' = o.result
        /\ rotated' = NoRotation
        /\ stopSeen' = StillPolling
        /\ IF o.install
           THEN /\ timers' = timers \cup {NewTimer}
                /\ monitorInterval' = Num(NewTimer)
           ELSE UNCHANGED <<timers, monitorInterval>>

\* what a reading operation returns: the description, the record of
\* getLatestRoundData, or the record of getCurrentPrice
RecordOf(c) ==
    LET q == Quote(c.val, c.decimals)
    IN  IF c.op = "desc" THEN c.description
        ELSE IF c.op = "round"
        THEN [answer |-> NumberOf(c.val),
              ngnToUsd |-> q.ngnToUsd, usdToNgn |-> q.usdToNgn,
              formattedPrice |-> q.formattedPrice,
              reversePrice |-> q.reversePrice]
        ELSE [ngnToUsd |-> q.ngnToUsd, usdToNgn |-> q.usdToNgn,
              decimals |-> c.decimals, description |-> c.description,
              formattedPrice |-> q.formattedPrice,
              reversePrice |-> q.reversePrice]

ReadResult(p, c, status, value) ==
    [NoResult EXCEPT !.caller = p, !.op = c.op, !.status = status, !.value = value]

\* queryHistoricalEvents returns `value`: an error of the head read or of the
\* single window is caught and gives [].  `return this.processEvents(events)`
\* is not awaited inside the try, so an error of processEvents rejects the
\* promise of queryHistoricalEvents.
HistResult(p, c, value, conv) ==
    [caller |-> p, op |-> "hist",
     status |-> IF conv \in {"typeerror", "failed"} THEN "error" ELSE "ok",
     value |-> value,
     issued |-> IF c.phase # "head" /\ c.blockRange <= c.batchSize
                THEN <<c.win>> ELSE c.batches,
     multi |-> c.blockRange > c.batchSize,
     failed |-> c.failed, conv |-> conv]

\* an operation queued on the gate by limit(...)
Queued(op, t) == [IdleCaller EXCEPT !.op = op, !.pc = "queued", !.timer = t]

(* --------------------------- continuations ---------------------------- *)
\* The await of executeWithRetry resumes in getDecimals / getDescription /
\* getCurrentPrice / getLatestRoundData: the cache field is assigned, then the
\* next call of the body is issued or the operation ends.  With roundData
\* undefined, roundData.answer raises a TypeError in getLatestRoundData;
\* Number(undefined) is NaN and raises nothing in getCurrentPrice.
\* monitorPrice installs its interval after a successful first poll.
ContRead(p, c) ==
    LET ok == c.settled = "returned"
        cd == IF ok /\ c.fn = "decimals" THEN c.val ELSE cachedDecimals
        cdesc == IF ok /\ c.fn = "description" THEN c.val ELSE cachedDescription
        wr == IF ok /\ c.fn \in {"decimals", "description"} THEN {c.fn} ELSE {}
        c1 == [c EXCEPT !.decimals = IF c.fn = "decimals" THEN c.val ELSE @,
                        !.description = IF c.fn = "description" THEN c.val ELSE @]
        adv == Advance(c1, cd, cdesc)
        hits == HitsOf(c1, cd, cdesc)
        gated == c.op \in GatedOps
    IN  IF ~ok
        THEN Out(IdleCaller, cd, cdesc, {}, {}, ReadResult(p, c, "error", Null),
                 gated, 0, FALSE)
        ELSE IF adv.pc = "call"
        THEN Out(adv, cd, cdesc, wr, hits, NoResult, FALSE, 0, FALSE)
        ELSE IF c.op = "round" /\ c.val = Undefined
        THEN Out(IdleCaller, cd, cdesc, wr, hits, ReadResult(p, c, "error", Null),
                 gated, 0, FALSE)
        ELSE Out(IdleCaller, cd, cdesc, wr, hits,
                 ReadResult(p, c, "ok", RecordOf(adv)), gated, 0, c.op = "monitor")

\* processEvents after `await this.getDecimals()`: events.map(...)
MapResult(p, c) ==
    IF MapThrows(c.events)
    THEN HistResult(p, c, Null, "typeerror")
    ELSE HistResult(p, c, Arr(ProcessEvents(c.events.arr, c.decimals)), "ok")

\* return this.processEvents(events): getDecimals() is called outside the gate
ProcessOut(p, c, events, release) ==
    LET c1 == [c EXCEPT !.phase = "process", !.events = events,
                        !.todo = <<"decimals">>]
        adv == Advance(c1, cachedDecimals, cachedDescription)
    IN  IF adv.pc = "call"
        THEN Out(adv, cachedDecimals, cachedDescription, {}, {}, NoResult,
                 release, 0, FALSE)
        ELSE Out(IdleCaller, cachedDecimals, cachedDescription, {}, {"decimals"},
                 MapResult(p, adv), release, 0, FALSE)

\* after getBlockNumber: fromBlock, then one task on the gate for a small
\* range, or the batches and one task on the gate for each
ContHistHead(p, c0) ==
    LET c == [c0 EXCEPT !.currentBlock = c0.val]
        b == Batches(c.val, c.blockRange, c.batchSize)
    IN  IF c.settled = "threw"
        THEN Out(IdleCaller, cachedDecimals, cachedDescription, {}, {},
                 HistResult(p, c, Arr(<<>>), "nohead"), FALSE, 0, FALSE)
        ELSE IF c.blockRange <= c.batchSize
        THEN Out([c EXCEPT !.phase = "single", !.pc = "queued",
                           !.win = Window(FromBlock(c.val, c.blockRange), c.val)],
                 cachedDecimals, cachedDescription, {}, {}, NoResult, FALSE, 1, FALSE)
        ELSE IF b = <<>>
        THEN ProcessOut(p, c, Arr(<<>>), FALSE)
        ELSE Out([c EXCEPT !.phase = "multi", !.pc = "queued", !.batches = b,
                           !.w = 1, !.win = b[1]],
                 cachedDecimals, cachedDescription, {}, {}, NoResult, FALSE,
                 Len(b), FALSE)

\* a window's task ends and leaves the gate.  Single window: an error goes to
\* the outer catch.  Batches: an error gives [] for that window; after the
\* last window, Promise.all resolves and the results are flattened
ContHistQuery(p, c0) ==
    LET threw == c0.settled = "threw"
        idx == IF c0.phase = "single" THEN 1 ELSE c0.w
        c == [c0 EXCEPT !.failed = IF threw \/ c0.val = Undefined
                                   THEN @ \cup {idx} ELSE @,
                        !.batchResults = IF c0.phase = "multi"
                                         THEN Append(@, IF threw THEN Arr(<<>>)
                                                        ELSE c0.val)
                                         ELSE @]
    IN  IF c.phase = "single"
        THEN IF threw
             THEN Out(IdleCaller, cachedDecimals, cachedDescription, {}, {},
                      HistResult(p, c, Arr(<<>>), "nowindow"), TRUE, 0, FALSE)
             ELSE ProcessOut(p, c, c.val, TRUE)
        ELSE IF c.w < Len(c.batches)
             THEN Out([c EXCEPT !.pc = "queued", !.w = @ + 1,
                                !.win = c.batches[c.w + 1]],
                      cachedDecimals, cachedDescription, {}, {}, NoResult,
                      TRUE, 0, FALSE)
             ELSE ProcessOut(p, c, Arr(Flat(c.batchResults)), TRUE)

\* processEvents resumes after its getDecimals() had to fetch
ContHistProcess(p, c) ==
    IF c.settled = "threw"
    THEN Out(IdleCaller, cachedDecimals, cachedDescription, {}, {},
             HistResult(p, c, Null, "failed"), FALSE, 0, FALSE)
    ELSE Out(IdleCaller, c.val, cachedDescription, {"decimals"}, {},
             MapResult(p, [c EXCEPT !.decimals = c.val]), FALSE, 0, FALSE)

\* where the caller of executeWithRetry goes on
Continue(p, c) ==
    IF c.op \in ReadOps THEN ContRead(p, c)
    ELSE IF c.phase = "head" THEN ContHistHead(p, c)
    ELSE IF c.phase = "process" THEN ContHistProcess(p, c)
    ELSE ContHistQuery(p, c)

\* executeWithRetry ends and its caller goes on in the same turn
Settle(p, c) ==
    /\ \E o \in {Continue(p, c)} : Apply(p, o)
    /\ lastRetry' = [caller |-> p, fn |-> c.fn, settled |-> c.settled,
                     val |-> c.val, outcomes |-> c.outcomes,
                     rotAfter |-> c.rotAfter, waits |-> c.waits]

\* a step in which no operation starts or goes on past an await of
\* executeWithRetry
NoEvents ==
    /\ result' = NoResult
    /\ lastRetry' = NoRetry
    /\ written' = {}
    /\ cacheHits' = {}
    /\ rotated' = NoRotation
    /\ stopSeen' = StillPolling

(* ----------------------------- operations ----------------------------- *)
\* getCurrentPrice(): return limit(async () => {...})
GetCurrentPrice(p) ==
    /\ Begin(p)
    /\ Apply(p, Out(Queued("price", 0), cachedDecimals, cachedDescription,
                    {}, {}, NoResult, FALSE, 1, FALSE))
    /\ lastRetry' = NoRetry
    /\ UNCHANGED <<rpcIndex, provider, activeListeners, rotations, stopped, faults,
                   chainHead, subscribed, feed>>

\* getLatestRoundData(): return limit(async () => {...})
GetLatestRoundData(p) ==
    /\ Begin(p)
    /\ Apply(p, Out(Queued("round", 0), cachedDecimals, cachedDescription,
                    {}, {}, NoResult, FALSE, 1, FALSE))
    /\ lastRetry' = NoRetry
    /\ UNCHANGED <<rpcIndex, provider, activeListeners, rotations, stopped, faults,
                   chainHead, subscribed, feed>>

\* getDescription() called directly (main of oracle.js): not gated
GetDescription(p) ==
    /\ Begin(p)
    /\ LET c == [IdleCaller EXCEPT !.op = "desc", !.todo = <<"description">>]
           adv == Advance(c, cachedDecimals, cachedDescription)
       IN  Apply(p, IF adv.pc = "call"
                    THEN Out(adv, cachedDecimals, cachedDescription, {}, {},
                             NoResult, FALSE, 0, FALSE)
                    ELSE Out(IdleCaller, cachedDecimals, cachedDescription, {},
                             {"description"},
                             ReadResult(p, c, "ok", RecordOf(adv)), FALSE, 0, FALSE))
    /\ lastRetry' = NoRetry
    /\ UNCHANGED <<rpcIndex, provider, activeListeners, rotations, stopped, faults,
                   chainHead, subscribed, feed>>

\* monitorPrice(): await this.displayCurrentPrice(), which awaits getCurrentPrice()
MonitorPrice(p) ==
    /\ Begin(p)
    /\ TimersIssued + Cardinality({q \in Callers : cs[q].op = "monitor"}) < MaxTimers
    /\ Apply(p, Out(Queued("monitor", 0), cachedDecimals, cachedDescription,
                    {}, {}, NoResult, FALSE, 1, FALSE))
    /\ lastRetry' = NoRetry
    /\ UNCHANGED <<rpcIndex, provider, activeListeners, rotations, stopped, faults,
                   chainHead, subscribed, feed>>

\* the setInterval callback of monitorPrice: a poll started by timer t
Tick(t, p) ==
    /\ t \in timers
    /\ Begin(p)
    /\ Apply(p, Out(Queued("tick", t), cachedDecimals, cachedDescription,
                    {}, {}, NoResult, FALSE, 1, FALSE))
    /\ lastRetry' = NoRetry
    /\ UNCHANGED <<rpcIndex, provider, activeListeners, rotations, stopped, faults,
                   chainHead, subscribed, feed>>

\* stopMonitoring() returns: the timer it found active and cleared, if any
StopResult ==
    [NoResult EXCEPT !.op = "stop", !.status = "ok",
                     !.value = IF monitorInterval # Undefined
                                  /\ monitorInterval.num \in timers
                               THEN monitorInterval
                               ELSE Undefined]

\* a stopMonitoring() that also empties the caches
StopMonitoringForgetful ==
    /\ IF monitorInterval # Undefined
       THEN /\ timers' = ClearInterval(timers, monitorInterval.num)
            /\ stopped' = stopped \cup {monitorInterval.num}
       ELSE UNCHANGED <<timers, stopped>>
    /\ activeListeners' = {}
    /\ subscribed' = {}
    /\ cachedDecimals' = Null
    /\ cachedDescription' = Null
    /\ result' = StopResult
    /\ lastRetry' = NoRetry
    /\ written' = {}
    /\ cacheHits' = {}
    /\ rotated' = NoRotation
    /\ stopSeen' = {q \in Callers : cs[q].op = "monitor"}
    /\ UNCHANGED <<rpcIndex, provider, monitorInterval, limitHolder, limitQueue,
                   cs, rotations, opsStarted, faults, chainHead, feed>>

\* stopMonitoring()
StopMonitoring ==
    /\ IF monitorInterval # Undefined
       THEN /\ timers' = ClearInterval(timers, monitorInterval.num)
            /\ stopped' = stopped \cup {monitorInterval.num}
       ELSE UNCHANGED <<timers, stopped>>
    /\ activeListeners' = {}
    /\ subscribed' = {}
    /\ result' = StopResult
    /\ lastRetry' = NoRetry
    /\ written' = {}
    /\ cacheHits' = {}
    /\ rotated' = NoRotation
    /\ stopSeen' = {q \in Callers : cs[q].op = "monitor"}
    /\ UNCHANGED <<rpcIndex, provider, cachedDecimals, cachedDescription,
                   monitorInterval, limitHolder, limitQueue, cs, rotations,
                   opsStarted, faults, chainHead, feed>>

\* setupEventListeners(): the subscription is commented out (lines 411-439);
\* the method logs a line and returns
SetupEventListeners ==
    /\ subscribed' = subscribed \cup {"AnswerUpdated"}
    /\ NoEvents
    /\ UNCHANGED <<rpcIndex, provider, cachedDecimals, cachedDescription,
                   activeListeners, monitorInterval, timers, limitHolder,
                   limitQueue, cs, rotations, stopped, opsStarted, faults,
                   chainHead, feed>>

\* the block ranges the modelled callers ask for: one that fits a single
\* window and one that needs several
HistRanges == {BatchSize, BatchSize + 1}

\* queryHistoricalEvents(blockRange, batchSize): the head is read through
\* executeWithRetry, outside the gate
QueryHistoricalEvents(p, blockRange) ==
    /\ Begin(p)
    /\ Apply(p, Out(StartCall([IdleCaller EXCEPT !.op = "hist", !.phase = "head",
                                                 !.blockRange = blockRange,
                                                 !.batchSize = BatchSize],
                              "getBlockNumber"),
                    cachedDecimals, cachedDescription, {}, {}, NoResult,
                    FALSE, 0, FALSE))
    /\ lastRetry' = NoRetry
    /\ UNCHANGED <<rpcIndex, provider, activeListeners, rotations, stopped, faults,
                   chainHead, subscribed, feed>>

(* -------------------------- executeWithRetry -------------------------- *)
\* `return await fn()`: the provider call succeeds
CallOk(p) ==
    /\ cs[p].pc = "call"
    /\ Settle(p, [cs[p] EXCEPT !.settled = "returned",
                               !.val = ProviderValue(cs[p].fn, cs[p].win, chainHead,
                                                     feed),
                               !.outcomes = Append(@, "ok")])
    /\ UNCHANGED <<rpcIndex, provider, activeListeners, rotations, stopped,
                   opsStarted, faults, chainHead, subscribed, feed>>

\* catch, isRateLimit || isFilterError: rotateRPC(), then the backoff timer
CallTransient(p) ==
    /\ cs[p].pc = "call"
    /\ faults < MaxFaults
    /\ faults' = faults + 1
    /\ RotateRPC
    /\ cs' = [cs EXCEPT ![p] =
                [@ EXCEPT !.pc = "backoff",
                          !.outcomes = Append(@, "transient"),
                          !.rotAfter = @ \cup {cs[p].i},
                          !.waits = Append(@, Delay(cs[p].i))]]
    /\ result' = NoResult
    /\ lastRetry' = NoRetry
    /\ written' = {}
    /\ cacheHits' = {}
    /\ stopSeen' = StillPolling
    /\ UNCHANGED <<cachedDecimals, cachedDescription, monitorInterval, timers,
                   limitHolder, limitQueue, stopped, opsStarted, chainHead,
                   subscribed, feed>>

\* catch, any other error: thrown on the last attempt, else the loop goes on
\* and calls fn() again at once
CallOther(p) ==
    /\ cs[p].pc = "call"
    /\ faults < MaxFaults
    /\ faults' = faults + 1
    /\ IF IsLastAttempt(cs[p].i)
       THEN Settle(p, [cs[p] EXCEPT !.settled = "threw",
                                    !.outcomes = Append(@, "other")])
       ELSE /\ cs' = [cs EXCEPT ![p] =
                        [@ EXCEPT !.i = @ + 1, !.outcomes = Append(@, "other")]]
            /\ NoEvents
            /\ UNCHANGED <<cachedDecimals, cachedDescription, monitorInterval,
                           timers, limitHolder, limitQueue>>
    /\ UNCHANGED <<rpcIndex, provider, activeListeners, rotations, stopped,
                   opsStarted, chainHead, subscribed, feed>>

\* the backoff timer fires: i++, and either the next attempt or the end of
\* the loop, after which the function returns undefined
BackoffDone(p) ==
    /\ cs[p].pc = "backoff"
    /\ IF cs[p].i + 1 < DefaultRetries
       THEN /\ cs' = [cs EXCEPT ![p] = [@ EXCEPT !.pc = "call", !.i = @ + 1]]
            /\ NoEvents
            /\ UNCHANGED <<cachedDecimals, cachedDescription, monitorInterval,
                           timers, limitHolder, limitQueue>>
       ELSE \E c \in {[cs[p] EXCEPT !.settled = "returned",
                                     !.val = Undefined]} : Settle(p, c)
    /\ UNCHANGED <<rpcIndex, provider, activeListeners, rotations, stopped,
                   opsStarted, faults, chainHead, subscribed, feed>>

(* ------------------------------- Next --------------------------------- *)
\* the reading operations, the monitor and the retry executor
NextReads ==
    \/ \E p \in Callers : GetCurrentPrice(p)
    \/ \E p \in Callers : GetLatestRoundData(p)
    \/ \E p \in Callers : GetDescription(p)
    \/ \E p \in Callers : MonitorPrice(p)
    \/ \E p \in Callers : \E t \in timers : Tick(t, p)
    \/ StopMonitoring
    \/ \E p \in Callers : CallOk(p)
    \/ \E p \in Callers : CallTransient(p)
    \/ \E p \in Callers : CallOther(p)
    \/ \E p \in Callers : BackoffDone(p)

Next ==
    \/ NextReads
    \/ SetupEventListeners
    \/ \E p \in Callers : \E r \in HistRanges : QueryHistoricalEvents(p, r)

\* every operation of the class, under any interleaving of its callers
Spec == Init /\ [][Next]_vars

\* the same without historical queries
SpecReads == Init /\ [][NextReads]_vars

(* ------------------- the gate, with fair scheduling ------------------- *)
\* the operations that put tasks on the gate, and the retry executor
NextGate ==
    \/ \E p \in Callers : GetCurrentPrice(p)
    \/ \E p \in Callers : GetLatestRoundData(p)
    \/ \E p \in Callers : \E r \in HistRanges : QueryHistoricalEvents(p, r)
    \/ \E p \in Callers : CallOk(p)
    \/ \E p \in Callers : CallTransient(p)
    \/ \E p \in Callers : CallOther(p)
    \/ \E p \in Callers : BackoffDone(p)

\* setTimeout: the event loop fires every backoff timer that is pending
FairTimers == \A p \in Callers : WF_vars(BackoffDone(p))

SpecGate == Init /\ [][NextGate]_vars /\ FairTimers

(* ------------------- historical queries on their own ------------------ *)
\* concurrent historical queries over more blocks than one window holds, and
\* the retry executor
NextHist ==
    \/ \E p \in Callers : QueryHistoricalEvents(p, BatchSize + 1)
    \/ \E p \in Callers : CallOk(p)
    \/ \E p \in Callers : CallTransient(p)
    \/ \E p \in Callers : CallOther(p)
    \/ \E p \in Callers : BackoffDone(p)

\* an oracle that has read and cached the decimals of the contract
InitHist ==
    /\ rpcIndex = 0
    /\ provider = InitializeProvider(0)
    /\ cachedDecimals = ProviderDecimals
    /\ cachedDescription = Null
    /\ activeListeners = {}
    /\ monitorInterval = Undefined
    /\ timers = {}
    /\ limitHolder = NoCaller
    /\ limitQueue = <<>>
    /\ cs = [p \in Callers |-> IdleCaller]
    /\ rotations = 0
    /\ stopped = {}
    /\ result = NoResult
    /\ lastRetry = NoRetry
    /\ written = {}
    /\ cacheHits = {}
    /\ opsStarted = 0
    /\ faults = 0
    /\ chainHead = HeadBlock
    /\ subscribed = {}
    /\ feed = [decimals |-> ProviderDecimals, answer |-> ProviderAnswer]
    /\ rotated = NoRotation
    /\ stopSeen = {}

SpecHist == InitHist /\ [][NextHist]_vars

(* ------------------ rotation with a populated registry ----------------- *)
\* an oracle whose registry holds listeners: this.activeListeners is a public
\* map, which setupEventListeners() as shipped leaves empty
InitRotate ==
    /\ rpcIndex = 0
    /\ provider = InitializeProvider(0)
    /\ cachedDecimals = Null
    /\ cachedDescription = Null
    /\ activeListeners \in SUBSET {EventNames[k] : k \in DOMAIN EventNames}
    /\ monitorInterval = Undefined
    /\ timers = {}
    /\ limitHolder = NoCaller
    /\ limitQueue = <<>>
    /\ cs = [p \in Callers |-> IdleCaller]
    /\ rotations = 0
    /\ stopped = {}
    /\ result = NoResult
    /\ lastRetry = NoRetry
    /\ written = {}
    /\ cacheHits = {}
    /\ opsStarted = 0
    /\ faults = 0
    /\ chainHead = HeadBlock
    /\ subscribed = activeListeners
    /\ feed = [decimals |-> ProviderDecimals, answer |-> ProviderAnswer]
    /\ rotated = NoRotation
    /\ stopSeen = {}

\* getCurrentPrice() through the retry executor, and stopMonitoring()
NextRotate ==
    \/ \E p \in Callers : GetCurrentPrice(p)
    \/ StopMonitoring
    \/ \E p \in Callers : CallOk(p)
    \/ \E p \in Callers : CallTransient(p)
    \/ \E p \in Callers : CallOther(p)
    \/ \E p \in Callers : BackoffDone(p)

SpecRotate == InitRotate /\ [][NextRotate]_vars

(* --------------- the window computation on its own -------------------- *)
\* <<blockRange, batchSize>>: the small ones, the defaults of
\* queryHistoricalEvents, the call of oracle.js, and 120 blocks by 50
BatchInputs ==
    ((0..MaxBlockRange) \X (1..MaxBatchSize))
    \cup {<<100, 50>>, <<50, 50>>, <<120, 50>>}
ChainHeads == {HeadBlock, 200}

\* one queryHistoricalEvents(blockRange, batchSize) call, just issued, for
\* each head, blockRange and batchSize of the sets above
InitBatches ==
    /\ rpcIndex = 0
    /\ provider = InitializeProvider(0)
    /\ cachedDecimals = Null
    /\ cachedDescription = Null
    /\ activeListeners = {}
    /\ monitorInterval = Undefined
    /\ timers = {}
    /\ limitHolder = NoCaller
    /\ limitQueue = <<>>
    /\ \E inp \in BatchInputs :
          cs = [p \in Callers |->
                  IF p = 1
                  THEN StartCall([IdleCaller EXCEPT !.op = "hist", !.phase = "head",
                                                    !.blockRange = inp[1],
                                                    !.batchSize = inp[2]],
                                 "getBlockNumber")
                  ELSE IdleCaller]
    /\ rotations = 0
    /\ stopped = {}
    /\ result = NoResult
    /\ lastRetry = NoRetry
    /\ written = {}
    /\ cacheHits = {}
    /\ opsStarted = 1
    /\ faults = 0
    /\ chainHead \in ChainHeads
    /\ subscribed = {}
    /\ feed = [decimals |-> ProviderDecimals, answer |-> ProviderAnswer]
    /\ rotated = NoRotation
    /\ stopSeen = {}

\* every provider call of the query succeeds
NextBatches == \E p \in Callers : CallOk(p)

SpecBatches == InitBatches /\ [][NextBatches]_vars

(* ---------------- the quote conversion on its own --------------------- *)
\* the contract's decimals() and answer: the small ones, and the answer 689
QuoteFeeds ==
    [decimals : {Num(d) : d \in 0..MaxDecimals},
     answer : {Num(a) : a \in (0..MaxAnswer) \cup {ProviderAnswer.num}}]

\* a freshly constructed oracle on a contract with any of these feeds
InitQuote ==
    /\ rpcIndex = 0
    /\ provider = InitializeProvider(0)
    /\ cachedDecimals = Null
    /\ cachedDescription = Null
    /\ activeListeners = {}
    /\ monitorInterval = Undefined
    /\ timers = {}
    /\ limitHolder = NoCaller
    /\ limitQueue = <<>>
    /\ cs = [p \in Callers |-> IdleCaller]
    /\ rotations = 0
    /\ stopped = {}
    /\ result = NoResult
    /\ lastRetry = NoRetry
    /\ written = {}
    /\ cacheHits = {}
    /\ opsStarted = 0
    /\ faults = 0
    /\ chainHead = HeadBlock
    /\ subscribed = {}
    /\ feed \in QuoteFeeds
    /\ rotated = NoRotation
    /\ stopSeen = {}

\* the three operations that convert a raw answer, every provider call
\* succeeding
NextQuote ==
    \/ \E p \in Callers : GetCurrentPrice(p)
    \/ \E p \in Callers : GetLatestRoundData(p)
    \/ \E p \in Callers : \E r \in HistRanges : QueryHistoricalEvents(p, r)
    \/ \E p \in Callers : CallOk(p)

SpecQuote == InitQuote /\ [][NextQuote]_vars

TypeOK ==
    /\ rpcIndex \in 0..(NumEndpoints - 1)
    /\ limitHolder \in Callers \cup {NoCaller}
    /\ \A p \in Callers : cs[p].pc \in {"idle", "queued", "call", "backoff"}
    /\ limitHolder = NoCaller => limitQueue = <<>>

(* ------------------------------ claims -------------------------------- *)
CacheKeys == {"decimals", "description"}

Cache(k) == IF k = "decimals" THEN cachedDecimals ELSE cachedDescription

Fetched(k) == IF k = "decimals" THEN ProviderDecimals ELSE ProviderDescription

\* an executeWithRetry call ended in the last step with no successful attempt
RetryEndedWithoutSuccess ==
    /\ lastRetry.settled # "none"
    /\ \A k \in 1..Len(lastRetry.outcomes) : lastRetry.outcomes[k] # "ok"

\* C1: when every attempt of executeWithRetry failed, whatever the kinds of the
\* errors, the call fails (it throws the last error); it never returns
\* normally without a successful attempt.
C1_ExhaustedRetryFails ==
    RetryEndedWithoutSuccess => lastRetry.settled = "threw"

\* C2: an executeWithRetry call whose 3 attempts all raised a transient error
\* made exactly 3 attempts and rotated exactly twice, after attempts 1 and 2
\* (loop indices 0 and 1) and not after the last one.
C2_ThreeAttemptsTwoRotations ==
    ( /\ lastRetry.settled # "none"
      /\ Len(lastRetry.outcomes) > 0
      /\ \A k \in 1..Len(lastRetry.outcomes) : lastRetry.outcomes[k] = "transient" )
    => /\ Len(lastRetry.outcomes) = DefaultRetries
       /\ lastRetry.rotAfter = 0..(DefaultRetries - 2)

\* C3: in every reachable state at most one provider call is in flight.
C3_OneCallInFlight ==
    Cardinality({p \in Callers : cs[p].pc = "call"}) <= 1

\* a step in which caller p issues the first attempt of a fetch of cache key k
StartsFetch(p, k) ==
    /\ cs'[p].pc = "call" /\ cs'[p].fn = k /\ cs'[p].i = 0 /\ cs'[p].outcomes = <<>>
    /\ ~(cs[p].pc = "call" /\ cs[p].fn = k)

\* C4: once a cache key is populated, no call of getDecimals / getDescription
\* issues a fetch for it: a fetch of a key begins only in a state where the
\* key is empty.
C4_CachedKeyNeverFetched ==
    [][\A p \in Callers : \A k \in CacheKeys :
          StartsFetch(p, k) => Cache(k) = Null]_vars

\* a call was served both keys from a cache that an earlier call populated
C4_Witness ==
    /\ cacheHits = CacheKeys
    /\ cachedDecimals = ProviderDecimals
    /\ cachedDescription = ProviderDescription

\* C5: once a cache key holds a value, no step assigns it again.
C5_CacheWrittenOnce ==
    [][\A k \in CacheKeys : Cache(k) # Null => k \notin written']_vars

\* C6: the cache holds, and getDescription returns, only values that the
\* provider returned in a successful attempt.
C6_CacheHoldsFetchedValues ==
    /\ \A k \in CacheKeys : Cache(k) \in {Null, Fetched(k)}
    /\ (result.op = "desc" /\ result.status = "ok")
         => result.value = ProviderDescription

\* C7: the pool index is a valid position, and it is the number of rotations
\* so far modulo the pool size: each rotation advances it by one modulo N and
\* N rotations bring it back.
C7_IndexCyclic ==
    /\ rpcIndex \in 0..(NumEndpoints - 1)
    /\ rpcIndex = rotations % NumEndpoints

\* the index has gone once around the pool
C7_Witness ==
    /\ rotations = NumEndpoints
    /\ rpcIndex = 0

\* the records of the windows of `issued` that are not in `failed`, in order
RECURSIVE RecordsOfOthers(_, _, _)
RecordsOfOthers(issued, failed, k) ==
    IF k > Len(issued) THEN <<>>
    ELSE (IF k \in failed THEN <<>> ELSE LogsIn(issued[k], feed.answer))
         \o RecordsOfOthers(issued, failed, k + 1)

\* C8: a multi-window query of which some window failed after its retries,
\* and whose conversion could read the decimals, returns the records of the
\* other windows in window order.
C8_FailedWindowOnlyOmitted ==
    ( /\ result.op = "hist"
      /\ result.multi
      /\ result.failed # {}
      /\ result.conv \notin {"nohead", "failed"} )
    => /\ result.status = "ok"
       /\ result.value =
            Arr(ProcessEvents(RecordsOfOthers(result.issued, result.failed, 1),
                              cachedDecimals))

\* C9: the windows of a query with head h, blockRange R and batchSize B.
\* R <= B: the one window [h - R, h].  R > B: the windows start at h - R, end
\* at h, each begins right after the one before, all but the last span B
\* blocks and the last spans at most B; 120 blocks by 50 give the windows
\* [h-120, h-71], [h-70, h-21], [h-20, h].
WindowsOk(c) ==
    LET h == c.currentBlock.num
        R == c.blockRange
        B == c.batchSize
        W == c.batches
        n == Len(W)
    IN  IF c.phase = "single"
        THEN /\ R <= B
             /\ c.win = Window(Num(h - R), Num(h))
        ELSE /\ R > B
             /\ n >= 1
             /\ c.win = W[c.w]
             /\ W[1].from = Num(h - R)
             /\ W[n].to = Num(h)
             /\ \A k \in 1..(n - 1) :
                   /\ W[k + 1].from.num = W[k].to.num + 1
                   /\ W[k].to.num - W[k].from.num + 1 = B
             /\ W[n].to.num - W[n].from.num + 1 \in 1..B
             /\ (R = 120 /\ B = 50) =>
                   W = << Window(Num(h - 120), Num(h - 71)),
                          Window(Num(h - 70), Num(h - 21)),
                          Window(Num(h - 20), Num(h)) >>

C9_WindowsPartitionRange ==
    \A p \in Callers :
        (cs[p].op = "hist" /\ cs[p].phase \in {"single", "multi"}) => WindowsOk(cs[p])

\* the last of the three windows of 120 blocks by 50 is being queried
C9_Witness ==
    \E p \in Callers :
        /\ cs[p].phase = "multi"
        /\ cs[p].blockRange = 120 /\ cs[p].batchSize = 50
        /\ cs[p].w = 3 /\ cs[p].pc = "call"

\* a step in which a poll of the monitor's schedule begins for caller p
TickStarts(p) == cs[p].op # "tick" /\ cs'[p].op = "tick"

\* C10: stopMonitoring() leaves the monitor's timer inactive and the listener
\* registry empty, and no poll is ever started by a timer that stopMonitoring
\* has cleared.
C10_StopCancelsSchedule ==
    [][ /\ StopMonitoring =>
             /\ activeListeners' = {}
             /\ monitorInterval # Undefined => monitorInterval.num \notin timers'
        /\ \A p \in Callers : TickStarts(p) => cs'[p].timer \notin stopped
      ]_vars

\* stopMonitoring() ran while the schedule was installed
C10_Witness ==
    /\ stopped # {}
    /\ monitorInterval # Undefined
    /\ monitorInterval.num \notin timers
    /\ activeListeners = {}

\* C11: monitorPrice() polls once at once and then installs the repeating
\* schedule; a failing cycle, the first one included, is caught by the cycle:
\* whenever the first cycle of a monitorPrice() call has ended, with a price
\* or with an error, the schedule is installed and active.
C11_FirstCycleFailureCaught ==
    result.op = "monitor"
    => /\ monitorInterval # Undefined
       /\ monitorInterval.num \in timers

\* C12: once setupEventListeners() has returned, the registry holds the
\* AnswerUpdated event (until stopMonitoring() clears it).
C12_SetupRegistersAnswerUpdated ==
    "AnswerUpdated" \in subscribed => "AnswerUpdated" \in activeListeners

\* C13: when a rotation completes, the keys of the registry are exactly the
\* events the caller has subscribed to.
C13_RotationKeepsSubscriptions ==
    [][rotations' # rotations => activeListeners' = subscribed']_vars

\* the last step returned a record converted from a raw answer of 0
ConvertedZero ==
    /\ feed.answer = Num(0)
    /\ feed.decimals # Undefined
    /\ \/ result.op \in {"price", "round"}
       \/ result.op = "hist" /\ result.conv = "ok" /\ result.value.arr # <<>>

\* C14: with a raw answer of 0, getCurrentPrice, getLatestRoundData and the
\* conversion of a historical event fail; they return no record.
C14_ZeroAnswerFails ==
    ConvertedZero => result.status = "error"

\* the last step returned the record of getCurrentPrice for decimals 6 and
\* answer 689
QuotedExample ==
    /\ feed = [decimals |-> Num(6), answer |-> Num(689)]
    /\ result.op = "price"
    /\ result.status = "ok"

\* the direct rate of a returned record, in hundredths
Hundredths(record) == RoundDiv(record.usdToNgn.n * 100, record.usdToNgn.d)

\* C15, as the code computes it: for decimals 6 and answer 689 the inverse
\* rate is 689 / 10^6, the direct rate is 10^6 / 689, which is 145138
\* hundredths, and the strings are "1 USD = 1451.38 NGN" and
\* "1 NGN = 0.000689 USD".
C15_QuoteExample ==
    QuotedExample
    => /\ result.value.ngnToUsd = Rat(689, 1000000)
       /\ result.value.usdToNgn = Rat(1000000, 689)
       /\ Hundredths(result.value) = 145138
       /\ result.value.formattedPrice = "1 USD = 1451.38 NGN"
       /\ result.value.reversePrice = "1 NGN = 0.000689 USD"

C15_Witness == QuotedExample

\* C15, as stated: for decimals 6 and answer 689 the inverse rate is 0.000689,
\* the direct rate is 145065 hundredths, and the strings are
\* "1 USD = 1450.65 NGN" and "1 NGN = 0.000689 USD".
C15_QuoteExampleAsStated ==
    QuotedExample
    => /\ result.value.ngnToUsd = Rat(689, 1000000)
       /\ Hundredths(result.value) = 145065
       /\ result.value.formattedPrice = "1 USD = 1450.65 NGN"
       /\ result.value.reversePrice = "1 NGN = 0.000689 USD"

\* the attempt of caller p's executeWithRetry call in flight fails in this
\* step with an error of the given kind
AttemptFails(p, kind) ==
    /\ cs[p].pc = "call"
    /\ \/ cs'[p].outcomes = Append(cs[p].outcomes, kind)
       \/ /\ lastRetry'.caller = p
          /\ lastRetry'.outcomes = Append(cs[p].outcomes, kind)

\* an attempt of caller p is issued in this step
AttemptIssued(p) ==
    /\ cs'[p].pc = "call"
    /\ cs[p].pc # "call" \/ cs'[p].i # cs[p].i \/ cs'[p].fn # cs[p].fn

\* the loop indices at which the attempts of `outcomes` failed transiently
TransientAt(outcomes) ==
    {k - 1 : k \in {j \in 1..Len(outcomes) : outcomes[j] = "transient"}}

\* C16: a transient failure advances the pool index by one and binds the
\* Transport Handle to the new endpoint; every attempt is issued on the handle
\* of the current index; a call whose attempt succeeds returns the provider's
\* value with no error, the success being its last attempt, with one rotation
\* for each transient failure before it and none in the succeeding step.
C16_RetryAfterRotationSucceeds ==
    [][ /\ \A p \in Callers :
              AttemptFails(p, "transient")
              => /\ rpcIndex' = (rpcIndex + 1) % NumEndpoints
                 /\ provider' = rpcIndex'
                 /\ rotations' = rotations + 1
        /\ \A p \in Callers : AttemptIssued(p) => provider' = rpcIndex'
        /\ ( /\ lastRetry'.settled # "none"
             /\ lastRetry'.outcomes # <<>>
             /\ lastRetry'.outcomes[Len(lastRetry'.outcomes)] = "ok" )
           => /\ lastRetry'.settled = "returned"
              /\ lastRetry'.val =
                   ProviderValue(lastRetry'.fn, cs[lastRetry'.caller].win,
                                 chainHead, feed)
              /\ \A k \in 1..(Len(lastRetry'.outcomes) - 1) :
                    lastRetry'.outcomes[k] # "ok"
              /\ lastRetry'.rotAfter = TransientAt(lastRetry'.outcomes)
              /\ rotations' = rotations
              /\ rpcIndex' = rpcIndex
      ]_vars

\* a call failed transiently on its first attempt at index 0 and succeeded on
\* its second, at index 1
C16_Witness ==
    /\ lastRetry.outcomes = <<"transient", "ok">>
    /\ lastRetry.settled = "returned"
    /\ lastRetry.val # Undefined
    /\ rotations = 1
    /\ rpcIndex = 1
    /\ provider = 1

\* stopMonitoring() is called while the monitor is not running
StopsWhenNotRunning ==
    /\ result'.op = "stop"
    /\ monitorInterval = Undefined \/ monitorInterval.num \notin timers

\* C17: stopMonitoring() called while the monitor is not running returns
\* normally and leaves the timers, the schedule field, the pool index, the
\* Transport Handle, the caches and every caller untouched, with the registry
\* empty; a second call right after a first changes nothing at all.
C17_StopIdempotent ==
    [][ /\ StopsWhenNotRunning
           => /\ result'.status = "ok"
              /\ activeListeners' = {}
              /\ UNCHANGED <<timers, monitorInterval, rpcIndex, provider,
                             cachedDecimals, cachedDescription, cs,
                             limitHolder, limitQueue>>
        /\ (result.op = "stop" /\ result'.op = "stop")
           => UNCHANGED <<timers, monitorInterval, rpcIndex, provider,
                          cachedDecimals, cachedDescription, cs, limitHolder,
                          limitQueue, activeListeners, stopped, subscribed>>
      ]_vars

\* a stopMonitoring() call that found the schedule already cleared by an
\* earlier one, with a populated cache
C17_Witness ==
    /\ result.op = "stop"
    /\ result.value = Undefined
    /\ stopped # {}
    /\ cachedDecimals = ProviderDecimals

\* C18: an attempt that fails with an error that is not transient leaves the
\* pool index, the Transport Handle and the registry as they are; if it is
\* not the last attempt the next attempt is issued in the same step, with no
\* wait; if it is the last, the call throws.
C18_OtherErrorNoRotation ==
    [][ \A p \in Callers :
          AttemptFails(p, "other")
          => /\ UNCHANGED <<rpcIndex, provider, activeListeners, rotations>>
             /\ IF cs[p].i < DefaultRetries - 1
                THEN /\ cs'[p].pc = "call"
                     /\ cs'[p].fn = cs[p].fn
                     /\ cs'[p].i = cs[p].i + 1
                     /\ cs'[p].waits = cs[p].waits
                     /\ lastRetry' = NoRetry
                ELSE /\ lastRetry'.caller = p
                     /\ lastRetry'.settled = "threw"
      ]_vars

\* a call threw after three attempts that failed with other errors, with no
\* rotation and no wait
C18_Witness ==
    /\ lastRetry.settled = "threw"
    /\ lastRetry.outcomes = <<"other", "other", "other">>
    /\ lastRetry.waits = <<>>
    /\ rotations = 0

\* the waits the backoff rule gives for `outcomes`: min(1000 * 2^i, 10000) ms
\* after a transient failure of attempt i, unless i is the last attempt
RECURSIVE BackoffWaits(_, _)
BackoffWaits(outcomes, k) ==
    IF k > Len(outcomes) THEN <<>>
    ELSE (IF outcomes[k] = "transient" /\ k < DefaultRetries
          THEN <<MinOf(1000 * Pow2(k - 1), 10000)>> ELSE <<>>)
         \o BackoffWaits(outcomes, k + 1)

\* C19: the waits of an executeWithRetry call that has ended are those of
\* the backoff rule: one after each transient failure but the last attempt's,
\* of min(1000 * 2^i, 10000) ms, each after the rotation.
C19_BackoffOnlyBetweenAttempts ==
    lastRetry.settled # "none"
    => /\ lastRetry.waits = BackoffWaits(lastRetry.outcomes, 1)
       /\ lastRetry.rotAfter = TransientAt(lastRetry.outcomes)

\* C20: an executeWithRetry call that has ended made at most max_attempts
\* attempts and ended Succeeded, returning the value of a successful attempt,
\* or Failed, throwing an error.
C20_EndsSucceededOrFailed ==
    lastRetry.settled # "none"
    => /\ Len(lastRetry.outcomes) \in 1..DefaultRetries
       /\ \/ /\ lastRetry.settled = "returned"
             /\ lastRetry.outcomes[Len(lastRetry.outcomes)] = "ok"
             /\ lastRetry.val # Undefined
          \/ lastRetry.settled = "threw"

\* no caller stays at a provider call for ever: the provider answers every
\* call, by a value or by an error
CallsEnd == \A p \in Callers : []<>(cs[p].pc # "call")

\* C21: the task that holds the gate is at a provider call or in a backoff
\* wait, never waiting for the gate itself, and, every provider call and
\* backoff wait ending, every task waiting for the gate is admitted.
C21_QueuedEventuallyAdmitted ==
    /\ [](\A p \in Callers :
             limitHolder = p => cs[p].pc \in {"call", "backoff"})
    /\ CallsEnd =>
           \A p \in Callers : (cs[p].pc = "queued") ~> (cs[p].pc # "queued")

\* a task waits for the gate behind another caller's task that is failing
C21_Witness ==
    \E p, q \in Callers :
        /\ p # q
        /\ cs[p].pc = "queued"
        /\ limitHolder = q
        /\ cs[q].pc = "backoff"

\* C22: the pool index and the Transport Handle are replaced only in the step
\* of a caller that holds the gate, so that no rotation happens while another
\* caller holds it.
C22_RotationOnlyByGateHolder ==
    [][ rotations' # rotations
        => \E p \in Callers : limitHolder = p /\ AttemptFails(p, "transient")
      ]_vars

\* C23: in every reachable state the provider and the contract are bound to
\* the endpoint at the current index of the pool.
C23_HandleOnCurrentEndpoint == provider = rpcIndex

\* two rotations have replaced the index and the handle
C23_Witness ==
    /\ rotations = 2
    /\ rpcIndex = 2
    /\ provider = 2

\* C25: a rotation whose teardown of the old handlers raised is completed all
\* the same: the index advances by one, the handle is rebuilt on the new
\* endpoint, the registered listeners are installed again, and the retry loop
\* that rotated goes on to its backoff wait.
C25_TeardownErrorSwallowed ==
    [][ \A p \in Callers :
          AttemptFails(p, "transient")
          => /\ rotated'.done
             /\ rotated'.registered = activeListeners
             /\ rotated'.teardownThrew
                => /\ rpcIndex' = (rpcIndex + 1) % NumEndpoints
                   /\ provider' = rpcIndex'
                   /\ activeListeners' \subseteq activeListeners
                   /\ rotated'.failed = {} => activeListeners' = activeListeners
                   /\ cs'[p].pc = "backoff"
      ]_vars

\* a rotation went through although the teardown raised, with listeners
\* registered
C25_Witness ==
    /\ rotated.done
    /\ rotated.teardownThrew
    /\ rotated.registered # {}
    /\ activeListeners = rotated.registered
    /\ rpcIndex = 1
    /\ provider = 1

\* C26: after a rotation the registry holds exactly the registered names
\* whose installation did not fail, whichever installations failed.
C26_OtherHandlersStillInstalled ==
    rotated.done
    => /\ \A e \in rotated.registered :
            e \notin rotated.failed => e \in activeListeners
       /\ activeListeners \subseteq rotated.registered \ rotated.failed

\* the first listener's installation failed and the second one is installed
C26_Witness ==
    /\ rotated.done
    /\ rotated.registered = {"AnswerUpdated", "NewRound"}
    /\ rotated.failed = {"AnswerUpdated"}
    /\ activeListeners = {"NewRound"}

\* what the window k of a query in flight has returned
WindowResultOk(c, k) ==
    \/ k \in c.failed /\ c.batchResults[k] \in {Arr(<<>>), Undefined}
    \/ k \notin c.failed
       /\ c.batchResults[k] = Arr(LogsIn(c.batches[k], feed.answer))

\* C24: while a query over several windows has a window at the provider or in
\* a backoff wait, that query holds the gate, the windows before it have all
\* returned and none after it has started; and the sequence the query returns
\* is the per-window results joined in window order, whichever windows retried.
C24_WindowsInOrder ==
    /\ \A p \in Callers :
          ( /\ cs[p].op = "hist"
            /\ cs[p].phase = "multi"
            /\ cs[p].pc \in {"call", "backoff"} )
          => /\ limitHolder = p
             /\ cs[p].fn = "queryFilter"
             /\ cs[p].win = cs[p].batches[cs[p].w]
             /\ Len(cs[p].batchResults) = cs[p].w - 1
             /\ \A k \in 1..(cs[p].w - 1) : WindowResultOk(cs[p], k)
    /\ ( /\ result.op = "hist"
         /\ result.multi
         /\ result.status = "ok"
         /\ result.conv = "ok" )
       => \E events \in {RecordsOfOthers(result.issued, result.failed, 1)} :
             /\ result.value = Arr(ProcessEvents(events, cachedDecimals))
             /\ \A k \in 1..(Len(events) - 1) :
                   events[k].blockNumber.num < events[k + 1].blockNumber.num

\* a single query over several windows returned the records of all its
\* windows after some of its provider calls had failed and been retried
C24_Witness ==
    /\ opsStarted = 1
    /\ faults > 0
    /\ rotations > 0
    /\ result.op = "hist"
    /\ result.multi
    /\ result.status = "ok"
    /\ result.conv = "ok"
    /\ result.failed = {}
    /\ Len(result.issued) > 1
    /\ Len(result.value.arr) > BatchSize

\* C27: a record returned by getCurrentPrice or getLatestRoundData ends a
\* reading whose last attempt succeeded, and is computed from the answer and
\* the decimals of the contract; with the retries exhausted the call fails.
C27_RecordOnlyFromSuccessfulReading ==
    ( /\ result.op \in {"price", "round"}
      /\ result.status = "ok" )
    => /\ lastRetry.caller = result.caller
       /\ lastRetry.outcomes # <<>>
       /\ lastRetry.outcomes[Len(lastRetry.outcomes)] = "ok"
       /\ result.value.ngnToUsd = Quote(feed.answer, feed.decimals).ngnToUsd
       /\ result.value.usdToNgn = Quote(feed.answer, feed.decimals).usdToNgn

\* C28: a monitorPrice() call during whose first poll stopMonitoring() ran
\* leaves no schedule active when it returns.
C28_StopDuringFirstPollLeavesNoSchedule ==
    ( /\ result.op = "monitor"
      /\ result.caller \in stopSeen )
    => timers = {}

\* C29: at most one schedule of the monitor is active at any time, and when
\* stopMonitoring() returns none is.
C29_OneScheduleStopCancelsAll ==
    /\ Cardinality(timers) <= 1
    /\ result.op = "stop" => timers = {}

\* C30: queryHistoricalEvents never fails: it returns a sequence, and the
\* empty one when the head read, the single window's query or the conversion
\* of the events failed.
C30_HistoryNeverThrows ==
    result.op = "hist"
    => /\ result.status = "ok"
       /\ result.conv # "ok" => result.value = Arr(<<>>)

=============================================================================
